---- MODULE Spec2Model ----
(***************************************************************************)
(* State-machine model of the raster Dataset wrapper                        *)
(* (src/src/gdal_common/raster/dataset.rs) and of the Metadata trait        *)
(* (src/src/gdal_common/metadata.rs).  The native library behind gdal_sys   *)
(* is the environment: each native call is an operator or a nondeterministic *)
(* choice over the results the call can produce.                            *)
(***************************************************************************)
EXTENDS Integers, Sequences, FiniteSets, TLC

\* ---------------------------------------------------------------- bounds
MaxHandles == 2
MaxDatasets == 3
MaxBands == 2
RasterW == 2
RasterH == 2

\* ------------------------------------------------------------- constants
\* the null pointer (c_dataset.is_null())
NULL == 0
\* the byte that ends a C string, which CString::new rejects inside a string
NUL == 0

VARIABLES
    ds,          \* the Dataset values ever constructed: c_dataset, origin, alive
    hstate,      \* native side: each dataset handle is "free", "open" or "closed"
    acq,         \* native side: the call that acquired each handle
    closeCalls,  \* native side: number of GDALClose calls issued per pointer
    lastErrMsg,  \* native side: the process-wide last diagnostic message
    registered,  \* native side: drivers registered
    last,        \* the last wrapper call: its arguments, native result and result
    bands,       \* native side: the bands (pixel type, pixels) of the open dataset
    prevBands,   \* the bands before the last wrapper call
    buf,         \* the Buffer value last constructed
    proj,        \* native side: the dataset's projection string
    gt,          \* native side: the dataset's geo-transform, <<>> when it has none
    prevGt,      \* the native geo-transform before the last wrapper call
    setGt,       \* the coefficients of the latest set_geo_transform that returned
                 \* Ok, <<>> before the first
    md,          \* native side: the metadata items, by (key, domain)
    prevMd       \* the metadata items before the last wrapper call

lifeVars == <<ds, hstate, acq, closeCalls, registered>>
bandVars == <<bands, prevBands>>
bufVars == <<buf>>
geoVars == <<proj, gt, prevGt, setGt>>
metaVars == <<md, prevMd>>
vars == <<ds, hstate, acq, closeCalls, lastErrMsg, registered, last, bands, prevBands,
          buf, proj, gt, prevGt, setGt, md, prevMd>>

\* the parts of the state a specification does not exercise
IdleLife ==
    /\ ds = <<>>
    /\ hstate = [h \in 1..MaxHandles |-> "free"]
    /\ acq = [h \in 1..MaxHandles |-> "none"]
    /\ closeCalls = [h \in 0..MaxHandles |-> 0]
    /\ registered = TRUE
IdleBand == bands = <<>> /\ prevBands = <<>>
IdleBuf == buf = [size |-> <<0, 0>>, data |-> <<>>]
IdleGeo == proj = <<>> /\ gt = <<>> /\ prevGt = <<>> /\ setGt = <<>>
IdleMeta == md = <<>> /\ prevMd = <<>>

\* ------------------------------------------------------------ Result<T>
Ok(v) == [ok |-> TRUE, val |-> v]
Err(e) == [ok |-> FALSE, err |-> e]

\* errors.rs / utils.rs: the error built after a native call returned null
_last_null_pointer_err(method_name, msg) ==
    [kind |-> "NullPointer", method_name |-> method_name, msg |-> msg]

\* errors.rs / utils.rs: the error built after a native call returned a CPLErr
_last_cpl_err(rv, msg) ==
    [kind |-> "CplError", class |-> rv, msg |-> msg]

\* ---------------------------------------------------------------- strings
\* A Rust string or path is a sequence of bytes.
HasNul(s) == \E i \in 1..Len(s) : s[i] = NUL

\* CString::new(s)?: an interior NUL byte is an error, otherwise the bytes
\* followed by the terminating NUL
CString_new(s) ==
    IF HasNul(s) THEN Err([kind |-> "FfiNulError"]) ELSE Ok(Append(s, NUL))

\* what the native side reads through a *const c_char: the bytes before the
\* first NUL
CStrBytes(c) ==
    LET firstNul == CHOOSE i \in 1..Len(c) :
                        c[i] = NUL /\ \A j \in 1..(i - 1) : c[j] # NUL
    IN  SubSeq(c, 1, firstNul - 1)

\* utils.rs _string: a native C string as an owned String
_string(c) == CStrBytes(c)

\* Path::to_string_lossy: a byte that is no valid UTF-8 (255 here) becomes
\* U+FFFD, the bytes 239 191 189
RECURSIVE to_string_lossy(_)
to_string_lossy(p) ==
    IF p = <<>> THEN <<>>
    ELSE (IF Head(p) = 255 THEN <<239, 191, 189>> ELSE <<Head(p)>>)
         \o to_string_lossy(Tail(p))

\* ------------------------------------------------------ native: datasets
Handles == 1..MaxHandles

\* raster files the native layer can open
Files == {<<97>>}

\* the paths and file names callers pass
Paths == {<<97>>, <<98>>, <<97, NUL, 98>>, <<255>>}

\* diagnostics the native layer leaves in its last-error channel
OpenMsgs == {<<110>>, <<>>}

FreeHandles == {h \in Handles : hstate[h] = "free"}

FreshHandle == CHOOSE h \in FreeHandles : \A g \in FreeHandles : h <= g

\* GDALOpen(c_filename, GA_ReadOnly): null for a file that does not exist, null
\* or a fresh handle for one that does
GDALOpen_returns(c_filename) ==
    IF CStrBytes(c_filename) \in Files /\ FreeHandles # {}
    THEN {NULL, FreshHandle}
    ELSE {NULL}

\* GDALCreateCopy(driver, c_filename, src, ...): null, or a fresh handle when
\* the source handle is not null
GDALCreateCopy_returns(c_filename, src) ==
    IF src # NULL /\ FreeHandles # {} THEN {NULL, FreshHandle} ELSE {NULL}

\* the native state after a call returned handle h: the handle is open, or the
\* last-error channel holds msg when h is null
NativeAcquired(h, by, msg) ==
    /\ hstate' = IF h = NULL THEN hstate ELSE [hstate EXCEPT ![h] = "open"]
    /\ acq' = IF h = NULL THEN acq ELSE [acq EXCEPT ![h] = by]
    /\ lastErrMsg' = IF h = NULL THEN msg ELSE lastErrMsg

\* GDALClose(h): one more close call on h; an open handle becomes closed
GDALClose(h) ==
    /\ closeCalls' = [closeCalls EXCEPT ![h] = @ + 1]
    /\ hstate' = IF h = NULL THEN hstate ELSE [hstate EXCEPT ![h] = "closed"]

\* ------------------------------------------------------------- Dataset
\* struct Dataset { c_dataset }, with the constructor that made it and
\* whether the value still exists
Dataset(c_dataset, origin) ==
    [c_dataset |-> c_dataset, origin |-> origin, alive |-> TRUE]

Live == {i \in 1..Len(ds) : ds[i].alive}

\* open without the null check: whatever the native call returned is wrapped
open_result_unchecked(c_dataset, msg) == Ok(Dataset(c_dataset, "open"))

\* DatasetExt::open after the native call: the null check and the wrapping
open_result(c_dataset, msg) ==
    IF c_dataset = NULL
    THEN Err(_last_null_pointer_err("GDALOpen", msg))
    ELSE Ok(Dataset(c_dataset, "open"))

\* DatasetExt::open(path)
open(path) ==
    LET filename == to_string_lossy(path)
        c_filename == CString_new(filename)
    IN  /\ Len(ds) < MaxDatasets
        /\ UNCHANGED <<bandVars, bufVars, geoVars, metaVars>>
        /\ registered' = TRUE
        /\ IF ~c_filename.ok
           THEN /\ last' = [op |-> "open", path |-> path, nativeCalled |-> FALSE,
                            nativeRet |-> NULL, result |-> Err(c_filename.err)]
                /\ UNCHANGED <<ds, hstate, acq, closeCalls, lastErrMsg>>
           ELSE \E c_dataset \in GDALOpen_returns(c_filename.val), msg \in OpenMsgs :
                  LET r == open_result(c_dataset, IF c_dataset = NULL THEN msg ELSE lastErrMsg)
                  IN  /\ NativeAcquired(c_dataset, "open", msg)
                      /\ ds' = IF r.ok THEN Append(ds, r.val) ELSE ds
                      /\ last' = [op |-> "open", path |-> path, nativeCalled |-> TRUE,
                                  nativeRet |-> c_dataset, result |-> r]
                      /\ UNCHANGED closeCalls

\* DatasetExt::from_c_ptr(c_dataset): wraps the pointer it is given, unchecked
from_c_ptr_result(c_dataset) == Dataset(c_dataset, "from_c_ptr")

\* a caller of the unsafe from_c_ptr passes null, a handle it got from a native
\* call of its own (a free handle becomes open), or a handle it already holds
from_c_ptr(c_dataset) ==
    /\ Len(ds) < MaxDatasets
    /\ ds' = Append(ds, from_c_ptr_result(c_dataset))
    /\ IF c_dataset # NULL /\ hstate[c_dataset] = "free"
       THEN NativeAcquired(c_dataset, "external", lastErrMsg)
       ELSE UNCHANGED <<hstate, acq, lastErrMsg>>
    /\ last' = [op |-> "from_c_ptr", nativeRet |-> c_dataset]
    /\ UNCHANGED <<closeCalls, registered>>
    /\ UNCHANGED <<bandVars, bufVars, geoVars, metaVars>>

\* create_copy without the null check
create_copy_result_unchecked(c_dataset, msg) == Ok(Dataset(c_dataset, "create_copy"))

\* DatasetExt::create_copy after the native call
create_copy_result(c_dataset, msg) ==
    IF c_dataset = NULL
    THEN Err(_last_null_pointer_err("GDALCreateCopy", msg))
    ELSE Ok(Dataset(c_dataset, "create_copy"))

\* DatasetExt::create_copy(&self, driver, filename) on the Dataset ds[i]
create_copy(i, filename) ==
    LET c_filename == CString_new(filename)
    IN  /\ i \in Live
        /\ Len(ds) < MaxDatasets
        /\ IF ~c_filename.ok
           THEN /\ last' = [op |-> "create_copy", self |-> i, nativeCalled |-> FALSE,
                            nativeRet |-> NULL, result |-> Err(c_filename.err)]
                /\ UNCHANGED <<ds, hstate, acq, closeCalls, lastErrMsg>>
           ELSE \E c_dataset \in GDALCreateCopy_returns(c_filename.val, ds[i].c_dataset),
                   msg \in OpenMsgs :
                  LET r == create_copy_result(c_dataset,
                                              IF c_dataset = NULL THEN msg ELSE lastErrMsg)
                  IN  /\ NativeAcquired(c_dataset, "create_copy", msg)
                      /\ ds' = IF r.ok THEN Append(ds, r.val) ELSE ds
                      /\ last' = [op |-> "create_copy", self |-> i, nativeCalled |-> TRUE,
                                  nativeRet |-> c_dataset, result |-> r]
                      /\ UNCHANGED closeCalls
        /\ UNCHANGED <<registered, bandVars, bufVars, geoVars, metaVars>>

\* a drop that forgets the native close call
drop_without_close(i) ==
    /\ i \in Live
    /\ ds' = [ds EXCEPT ![i].alive = FALSE]
    /\ last' = [op |-> "drop", self |-> i]
    /\ UNCHANGED <<hstate, closeCalls, acq, lastErrMsg, registered, bandVars, bufVars, geoVars, metaVars>>

\* impl Drop for Dataset: the value ds[i] goes out of scope
drop(i) ==
    /\ i \in Live
    /\ ds' = [ds EXCEPT ![i].alive = FALSE]
    /\ GDALClose(ds[i].c_dataset)
    /\ last' = [op |-> "drop", self |-> i]
    /\ UNCHANGED <<acq, lastErrMsg, registered, bandVars, bufVars, geoVars, metaVars>>

InitLife ==
    /\ ds = <<>>
    /\ hstate = [h \in Handles |-> "free"]
    /\ acq = [h \in Handles |-> "none"]
    /\ closeCalls = [h \in Handles \cup {NULL} |-> 0]
    /\ lastErrMsg = <<>>
    /\ registered = FALSE
    /\ last = [op |-> "none"]
    /\ IdleBand /\ IdleBuf /\ IdleGeo /\ IdleMeta

NextLife ==
    \/ \E path \in Paths : open(path)
    \/ \E h \in Handles \cup {NULL} : from_c_ptr(h)
    \/ \E i \in 1..MaxDatasets, filename \in Paths : create_copy(i, filename)
    \/ \E i \in 1..MaxDatasets : drop(i)

SpecLife == InitLife /\ [][NextLife]_vars

\* ------------------------------------------------- claims on the lifecycle
DroppedOn(p) == {i \in 1..Len(ds) : ds[i].c_dataset = p /\ ~ds[i].alive}
WrappedBy(p, origin) == {i \in 1..Len(ds) : ds[i].c_dataset = p /\ ds[i].origin = origin}

\* C1 as stated: open fails if and only if the native open returned null, the
\* failure is then the null-pointer error carrying the last native diagnostic,
\* and a success wraps the handle the native open returned.
C1_OpenFailsOnlyOnNullHandle ==
    last.op = "open" =>
        /\ ~last.result.ok <=> (last.nativeCalled /\ last.nativeRet = NULL)
        /\ ~last.result.ok =>
              /\ last.result.err.kind = "NullPointer"
              /\ last.result.err.msg = lastErrMsg
        /\ last.result.ok => last.result.val.c_dataset = last.nativeRet

\* C1 amended: open fails if and only if the path holds an interior NUL byte
\* (a string-conversion error, the native open is not called) or the native
\* open returned null (the GDALOpen null-pointer error carrying the last
\* native diagnostic); a path that names no file fails; a success wraps the
\* non-null handle the native open returned.
C1_OpenFailsOnNulOrNullHandle ==
    last.op = "open" =>
        /\ ~last.result.ok <=>
              (HasNul(last.path) \/ (last.nativeCalled /\ last.nativeRet = NULL))
        /\ HasNul(last.path) =>
              /\ ~last.nativeCalled
              /\ ~last.result.ok
              /\ last.result.err.kind = "FfiNulError"
        /\ (~HasNul(last.path) /\ ~last.result.ok) =>
              /\ last.result.err.kind = "NullPointer"
              /\ last.result.err.method_name = "GDALOpen"
              /\ last.result.err.msg = lastErrMsg
        /\ (~HasNul(last.path) /\ to_string_lossy(last.path) \notin Files) =>
              ~last.result.ok
        /\ last.result.ok =>
              /\ last.nativeRet # NULL
              /\ last.result.val.c_dataset = last.nativeRet
              /\ ds[Len(ds)] = last.result.val

\* C1 witness: open of a path that names no file has failed after the native
\* call returned null.
C1_Witness ==
    /\ last.op = "open"
    /\ last.path = <<98>>
    /\ last.nativeCalled
    /\ last.nativeRet = NULL
    /\ ~last.result.ok

\* C2 as stated: every acquired handle is closed exactly once (never twice,
\* and once all Dataset values are gone never zero times), and no close call is
\* issued for a pointer that was not acquired, the null pointer included.
C2_EveryHandleClosedExactlyOnce ==
    /\ closeCalls[NULL] = 0
    /\ \A h \in Handles :
          /\ closeCalls[h] <= 1
          /\ closeCalls[h] >= 1 => acq[h] # "none"
          /\ (Live = {} /\ acq[h] # "none") => closeCalls[h] = 1

\* C2 amended: a Dataset value issues exactly one native close call, on the
\* pointer it wraps, when it goes out of scope, and no close call is issued
\* otherwise; every handle open or create_copy acquired is wrapped by a
\* Dataset; so a handle that only the Dataset of its open or create_copy wraps
\* is closed exactly once, when that Dataset is dropped, and the null handle of
\* a failed open or create_copy is never closed.  from_c_ptr wraps any pointer
\* unchecked: a pointer is closed once per dropped Dataset that wraps it.
C2_OneClosePerDroppedDataset ==
    /\ \A p \in Handles \cup {NULL} : closeCalls[p] = Cardinality(DroppedOn(p))
    /\ \A h \in Handles :
          acq[h] \in {"open", "create_copy"} =>
              /\ Cardinality(WrappedBy(h, acq[h])) = 1
              /\ WrappedBy(h, "from_c_ptr") = {} =>
                    /\ closeCalls[h] <= 1
                    /\ closeCalls[h] = 1 <=> (\A i \in WrappedBy(h, acq[h]) : ~ds[i].alive)
    /\ WrappedBy(NULL, "from_c_ptr") = {} => closeCalls[NULL] = 0

\* C2 witness: after a failed open, the handle of a successful open has been
\* closed once and no Dataset value is left.
C2_Witness ==
    /\ Live = {}
    /\ lastErrMsg # <<>>
    /\ \E h \in Handles :
          /\ acq[h] = "open"
          /\ WrappedBy(h, "from_c_ptr") = {}
          /\ closeCalls[h] = 1

\* C3 as stated: every existing Dataset value, whichever constructor made it,
\* holds a non-null handle that has not been closed.
C3_LiveDatasetHoldsOpenHandle ==
    \A i \in Live :
        /\ ds[i].c_dataset # NULL
        /\ hstate[ds[i].c_dataset] = "open"

\* C3 amended: every existing Dataset value produced by open or create_copy
\* holds a non-null handle, and that handle has not been closed unless a
\* Dataset that from_c_ptr made to wrap the same handle has been dropped; a
\* Dataset produced by from_c_ptr holds the pointer it was given, whatever it is.
C3_OpenedDatasetHoldsOpenHandle ==
    \A i \in Live :
        ds[i].origin \in {"open", "create_copy"} =>
            /\ ds[i].c_dataset # NULL
            /\ \/ hstate[ds[i].c_dataset] = "open"
               \/ \E j \in WrappedBy(ds[i].c_dataset, "from_c_ptr") : ~ds[j].alive

\* C3 witness: a Dataset produced by create_copy exists beside its source, after
\* another create_copy has failed.
C3_Witness ==
    /\ last.op = "create_copy"
    /\ last.nativeCalled
    /\ ~last.result.ok
    /\ \E i \in Live, j \in Live :
          /\ ds[i].origin = "create_copy"
          /\ ds[j].origin = "open"
          /\ hstate[ds[i].c_dataset] = "open"

\* =========================================================== raster bands
\* isize (64 bits) as three limbs: the value is hi * 2^32 + mid * 2^16 + lo,
\* with hi a signed 32-bit number and mid, lo in 0..65535
Isize(hi, mid, lo) == [hi |-> hi, mid |-> mid, lo |-> lo]

\* `band_index as c_int`: the low 32 bits, read as a two's-complement number
as_c_int(b) ==
    IF b.mid >= 32768 THEN (b.mid - 65536) * 65536 + b.lo ELSE b.mid * 65536 + b.lo

\* the band indices callers pass: 0 .. count + 1, -1, 2^32 + 1 and 2^31 + 1
BandIndexes ==
    {Isize(0, 0, k) : k \in 0..(MaxBands + 1)}
        \cup {Isize(-1, 65535, 65535), Isize(1, 0, 1), Isize(0, 32768, 1)}

\* GdalType: the semantic pixel types, with the range of each
GdalTypes == {"u8", "i16"}
TypeMin(T) == IF T = "u8" THEN 0 ELSE -32768
TypeMax(T) == IF T = "u8" THEN 255 ELSE 32767

\* the native conversion of a sample to pixel type T: out-of-range values clamp
GDALCopyWords(v, T) ==
    IF v < TypeMin(T) THEN TypeMin(T) ELSE IF v > TypeMax(T) THEN TypeMax(T) ELSE v

Cells == (0..(RasterW - 1)) \X (0..(RasterH - 1))
CellIndex(c) == c[2] * RasterW + c[1]

\* the dataset under test: n bands of RasterW x RasterH pixels, odd bands of
\* 16-bit signed pixels, even bands of 8-bit pixels
Fixture(n) ==
    [k \in 1..n |->
        IF k % 2 = 1
        THEN [type |-> "i16",
              pix |-> [c \in Cells |-> <<-5, 300, 7, 0>>[(CellIndex(c) % 4) + 1]]]
        ELSE [type |-> "u8", pix |-> [c \in Cells |-> CellIndex(c) + 1]]]

\* pub struct Buffer<T> { size, data } and Buffer::new
Buffer_new(size, data) == [size |-> size, data |-> data]

\* the diagnostics the native layer leaves after a failed band lookup or transfer
BandMsg == <<105>>
IoMsg == <<111>>

\* GDALGetRasterCount
count(bs) == Len(bs)

\* GDALGetRasterBand(c_dataset, i): the band handle, null unless 1 <= i <= count
GDALGetRasterBand(bs, i) == IF 1 <= i /\ i <= count(bs) THEN i ELSE NULL

\* RasterBand::from_c_ptr
RasterBand_from_c_ptr(c_band) == [c_rasterband |-> c_band]

\* DatasetExt::rasterband(band_index)
rasterband(bs, band_index) ==
    LET c_band == GDALGetRasterBand(bs, as_c_int(band_index))
    IN  IF c_band = NULL
        THEN Err(_last_null_pointer_err("GDALGetRasterBand", BandMsg))
        ELSE Ok(RasterBand_from_c_ptr(c_band))

\* the native transfer accepts a window that lies inside the raster and a
\* buffer of at least one pixel
ValidWindow(window, window_size, size) ==
    /\ window[1] >= 0 /\ window[2] >= 0
    /\ window_size[1] >= 1 /\ window_size[2] >= 1
    /\ window[1] + window_size[1] <= RasterW
    /\ window[2] + window_size[2] <= RasterH
    /\ size[1] >= 1 /\ size[2] >= 1

\* GDALRasterIO(GF_Read): size[1] * size[2] samples in row-major order, each the
\* nearest source pixel of the window converted to T
GDALRasterIO_read(band, window, window_size, size, T) ==
    [k \in 1..(size[1] * size[2]) |->
        LET bx == (k - 1) % size[1]
            by == (k - 1) \div size[1]
            sx == window[1] + ((bx * window_size[1]) \div size[1])
            sy == window[2] + ((by * window_size[2]) \div size[2])
        IN  GDALCopyWords(band.pix[<<sx, sy>>], T)]

\* GDALRasterIO(GF_Write): each pixel of the window takes the nearest sample of
\* the buffer, converted to the band's pixel type
GDALRasterIO_write(band, window, window_size, buffer, T) ==
    [band EXCEPT !.pix =
        [c \in Cells |->
            IF /\ window[1] <= c[1] /\ c[1] < window[1] + window_size[1]
               /\ window[2] <= c[2] /\ c[2] < window[2] + window_size[2]
            THEN LET bx == ((c[1] - window[1]) * buffer.size[1]) \div window_size[1]
                     by == ((c[2] - window[2]) * buffer.size[2]) \div window_size[2]
                 IN  GDALCopyWords(buffer.data[by * buffer.size[1] + bx + 1], band.type)
            ELSE band.pix[c]]]

\* RasterBand::band_type
RasterBand_band_type(bs, rb) == bs[rb.c_rasterband].type

\* RasterBand::read_as::<T>(window, window_size, size)
RasterBand_read_as(bs, rb, window, window_size, size, T) ==
    IF ValidWindow(window, window_size, size)
    THEN [result |-> Ok(Buffer_new(size,
                         GDALRasterIO_read(bs[rb.c_rasterband], window, window_size, size, T))),
          bands |-> bs]
    ELSE [result |-> Err(_last_cpl_err("CE_Failure", IoMsg)), bands |-> bs]

\* RasterBand::read_band_as::<T>(): the whole band at its own resolution
RasterBand_read_band_as(bs, rb, T) ==
    RasterBand_read_as(bs, rb, <<0, 0>>, <<RasterW, RasterH>>, <<RasterW, RasterH>>, T)

\* RasterBand::write::<T>(window, window_size, buffer)
RasterBand_write(bs, rb, window, window_size, buffer, T) ==
    IF ValidWindow(window, window_size, buffer.size)
    THEN [result |-> Ok(<<>>),
          bands |-> [bs EXCEPT ![rb.c_rasterband] =
                        GDALRasterIO_write(@, window, window_size, buffer, T)]]
    ELSE [result |-> Err(_last_cpl_err("CE_Failure", IoMsg)), bands |-> bs]

\* DatasetExt::band_type(band_index)
band_type(bs, band_index) ==
    LET band == rasterband(bs, band_index)
    IN  [result |-> IF band.ok THEN Ok(RasterBand_band_type(bs, band.val)) ELSE band,
         bands |-> bs]

\* read_raster_as with window_size and size passed in each other's place
read_raster_as_swapped(bs, band_index, window, window_size, size, T) ==
    LET band == rasterband(bs, band_index)
    IN  IF ~band.ok THEN [result |-> band, bands |-> bs]
        ELSE RasterBand_read_as(bs, band.val, window, size, window_size, T)

\* DatasetExt::read_raster_as::<T>(band_index, window, window_size, size)
read_raster_as(bs, band_index, window, window_size, size, T) ==
    LET band == rasterband(bs, band_index)
    IN  IF ~band.ok THEN [result |-> band, bands |-> bs]
        ELSE RasterBand_read_as(bs, band.val, window, window_size, size, T)

\* DatasetExt::read_raster(band_index, window, window_size, size)
read_raster(bs, band_index, window, window_size, size) ==
    read_raster_as(bs, band_index, window, window_size, size, "u8")

\* DatasetExt::read_full_raster_as::<T>(band_index)
read_full_raster_as(bs, band_index, T) ==
    LET band == rasterband(bs, band_index)
    IN  IF ~band.ok THEN [result |-> band, bands |-> bs]
        ELSE RasterBand_read_band_as(bs, band.val, T)

\* write_raster with the window's two coordinates passed in each other's place
write_raster_transposed(bs, band_index, window, window_size, buffer, T) ==
    LET band == rasterband(bs, band_index)
    IN  IF ~band.ok THEN [result |-> band, bands |-> bs]
        ELSE RasterBand_write(bs, band.val, <<window[2], window[1]>>, window_size, buffer, T)

\* DatasetExt::write_raster::<T>(band_index, window, window_size, buffer)
write_raster(bs, band_index, window, window_size, buffer, T) ==
    LET band == rasterband(bs, band_index)
    IN  IF ~band.ok THEN [result |-> band, bands |-> bs]
        ELSE RasterBand_write(bs, band.val, window, window_size, buffer, T)

\* the (window, window_size, size) triples callers read with: the full band, one
\* pixel, the band decimated to one pixel, a row stretched to a column, and a
\* window that starts left of the raster
ReadRequests ==
    { <<<<0, 0>>, <<RasterW, RasterH>>, <<RasterW, RasterH>>>>,
      <<<<1, 0>>, <<1, 1>>, <<1, 1>>>>,
      <<<<0, 0>>, <<RasterW, RasterH>>, <<1, 1>>>>,
      <<<<0, 1>>, <<2, 1>>, <<1, 2>>>>,
      <<<<-1, 0>>, <<1, 1>>, <<1, 1>>>> }

\* the (window, window_size, T, buffer) callers write with: a ramp over the full
\* band, and one sample at a window that starts left of the raster
WriteRequests ==
    { <<<<0, 0>>, <<RasterW, RasterH>>, "u8",
        Buffer_new(<<RasterW, RasterH>>, [k \in 1..(RasterW * RasterH) |-> 10 * k])>>,
      <<<<-1, 0>>, <<1, 1>>, "u8", Buffer_new(<<1, 1>>, <<9>>)>> }

\* a call on the open dataset has returned: the outcome is recorded, the native
\* last-error channel holds the diagnostic of a failure
Returned(call, outcome) ==
    /\ last' = [call EXCEPT !.result = outcome.result]
    /\ bands' = outcome.bands
    /\ prevBands' = bands
    /\ lastErrMsg' = IF outcome.result.ok THEN lastErrMsg ELSE outcome.result.err.msg
    /\ UNCHANGED <<lifeVars, bufVars, geoVars, metaVars>>

\* the record of a call: its arguments (size for a read, buffer for a write)
Call(op, band_index, window, window_size, size, buffer, T, writeback) ==
    [op |-> op, band_index |-> band_index, window |-> window,
     window_size |-> window_size, size |-> size, buffer |-> buffer, T |-> T,
     writeback |-> writeback, result |-> Ok(<<>>)]

\* a caller calls rasterband(band_index) on the open dataset
call_rasterband(band_index) ==
    /\ band_index \in BandIndexes
    /\ Returned(Call("rasterband", band_index, <<>>, <<>>, <<>>, <<>>, "", FALSE),
             [result |-> rasterband(bands, band_index), bands |-> bands])

\* a caller calls band_type(band_index) on the open dataset
call_band_type(band_index) ==
    /\ band_index \in BandIndexes
    /\ Returned(Call("band_type", band_index, <<>>, <<>>, <<>>, <<>>, "", FALSE),
             band_type(bands, band_index))

\* a caller calls read_raster(band_index, window, window_size, size) on the open dataset
call_read_raster(band_index, rq) ==
    /\ band_index \in BandIndexes
    /\ Returned(Call("read_raster", band_index, rq[1], rq[2], rq[3], <<>>, "u8", FALSE),
             read_raster(bands, band_index, rq[1], rq[2], rq[3]))

\* a caller calls read_raster_as::<T>(band_index, window, window_size, size) on the open dataset
call_read_raster_as(band_index, rq, T) ==
    /\ band_index \in BandIndexes
    /\ Returned(Call("read_raster_as", band_index, rq[1], rq[2], rq[3], <<>>, T, FALSE),
             read_raster_as(bands, band_index, rq[1], rq[2], rq[3], T))

\* a caller calls read_full_raster_as::<T>(band_index) on the open dataset
call_read_full_raster_as(band_index, T) ==
    /\ band_index \in BandIndexes
    /\ Returned(Call("read_full_raster_as", band_index, <<>>, <<>>, <<>>, <<>>, T, FALSE),
             read_full_raster_as(bands, band_index, T))

\* a caller calls write_raster::<T>(band_index, window, window_size, &buffer) on the open dataset
call_write_raster(band_index, wq) ==
    /\ band_index \in BandIndexes
    /\ Returned(Call("write_raster", band_index, wq[1], wq[2], <<>>, wq[4], wq[3], FALSE),
             write_raster(bands, band_index, wq[1], wq[2], wq[4], wq[3]))

\* the caller writes the buffer it has just read back where it read it: after a
\* successful read_raster_as::<T>(band_index, window, window_size, window_size),
\* write_raster::<T>(band_index, window, window_size, &buffer)
call_write_back ==
    /\ last.op = "read_raster_as"
    /\ last.result.ok
    /\ last.size = last.window_size
    /\ Returned(Call("write_raster", last.band_index, last.window, last.window_size,
                     <<>>, last.result.val, last.T, TRUE),
                write_raster(bands, last.band_index, last.window, last.window_size,
                             last.result.val, last.T))

InitBand ==
    /\ \E n \in 0..MaxBands : bands = Fixture(n)
    /\ prevBands = bands
    /\ last = [op |-> "none"]
    /\ lastErrMsg = <<>>
    /\ IdleLife
    /\ IdleBuf /\ IdleGeo /\ IdleMeta

NextBand ==
    \/ \E b \in BandIndexes : call_rasterband(b)
    \/ \E b \in BandIndexes : call_band_type(b)
    \/ \E b \in BandIndexes, rq \in ReadRequests : call_read_raster(b, rq)
    \/ \E b \in BandIndexes, rq \in ReadRequests, T \in GdalTypes :
          call_read_raster_as(b, rq, T)
    \/ \E b \in BandIndexes, T \in GdalTypes : call_read_full_raster_as(b, T)
    \/ \E b \in BandIndexes, wq \in WriteRequests : call_write_raster(b, wq)
    \/ call_write_back

SpecBand == InitBand /\ [][NextBand]_vars

\* --------------------------------------------------- claims on the bands
\* 1 <= band_index <= n for the value of an isize and a band count n < 2^16
IsizeIn1To(b, n) == b.hi = 0 /\ b.mid = 0 /\ 1 <= b.lo /\ b.lo <= n

BandNotFound == Err(_last_null_pointer_err("GDALGetRasterBand", BandMsg))

\* C4: rasterband(band_index) succeeds if and only if 1 <= band_index <= count,
\* and every other index of the parameter type, those that do not fit the
\* native 32-bit int included, yields the GDALGetRasterBand null-pointer error.
C4_RasterbandSucceedsIffInRange ==
    last.op = "rasterband" =>
        /\ last.result.ok <=> IsizeIn1To(last.band_index, count(bands))
        /\ ~last.result.ok => last.result = BandNotFound

\* what C8 expects of the last call: the band lookup, then the RasterBand
\* operation with the arguments as the caller gave them, on the bands as they
\* were before the call
C8_Delegated ==
    LET band == rasterband(prevBands, last.band_index)
    IN  IF ~band.ok THEN [result |-> BandNotFound, bands |-> prevBands]
        ELSE CASE last.op = "band_type" ->
                    [result |-> Ok(RasterBand_band_type(prevBands, band.val)),
                     bands |-> prevBands]
               [] last.op = "read_raster" ->
                    RasterBand_read_as(prevBands, band.val, last.window,
                                       last.window_size, last.size, "u8")
               [] last.op = "read_raster_as" ->
                    RasterBand_read_as(prevBands, band.val, last.window,
                                       last.window_size, last.size, last.T)
               [] last.op = "read_full_raster_as" ->
                    RasterBand_read_band_as(prevBands, band.val, last.T)
               [] last.op = "write_raster" ->
                    RasterBand_write(prevBands, band.val, last.window,
                                     last.window_size, last.buffer, last.T)

\* C8: each convenience method returns the result of rasterband(band_index)
\* followed by the RasterBand operation with window, window_size and size or
\* buffer passed through unaltered, and has that operation's effect on the
\* pixels; when the band lookup fails it returns the lookup's error and the
\* pixels of every band are unchanged.
C8_ConvenienceMethodsDelegate ==
    last.op \in {"band_type", "read_raster", "read_raster_as",
                 "read_full_raster_as", "write_raster"} =>
        /\ last.result = C8_Delegated.result
        /\ bands = C8_Delegated.bands
        /\ ~rasterband(prevBands, last.band_index).ok =>
              /\ last.result = BandNotFound
              /\ bands = prevBands

\* C8 witness: a read of a row into a column-shaped buffer has succeeded on a
\* dataset whose pixels an earlier write_raster changed.
C8_Witness ==
    /\ last.op = "read_raster"
    /\ last.window_size # last.size
    /\ last.window = <<0, 1>>
    /\ last.result.ok
    /\ Len(last.result.val.data) = 2
    /\ bands # Fixture(Len(bands))

TypeCovers(T, B) == TypeMin(T) <= TypeMin(B) /\ TypeMax(B) <= TypeMax(T)

MaxDim == 2
MaxDataLen == 4

\* the sample values callers fill a buffer with
Samples == {0, 1}

\* the data vectors callers pass: every sequence of at most MaxDataLen samples
DataVectors == UNION {[1..n -> Samples] : n \in 0..MaxDataLen}

\* a caller constructs a buffer: Buffer::new(size, data)
call_Buffer_new(size, data) ==
    /\ buf' = Buffer_new(size, data)
    /\ last' = [op |-> "Buffer::new", size |-> size, data |-> data]
    /\ UNCHANGED <<lifeVars, bandVars, geoVars, metaVars, lastErrMsg>>

InitBuf ==
    /\ IdleBuf
    /\ last = [op |-> "none"]
    /\ lastErrMsg = <<>>
    /\ IdleLife /\ IdleBand /\ IdleGeo /\ IdleMeta

NextBuf ==
    \E w \in 0..MaxDim, h \in 0..MaxDim, data \in DataVectors :
        call_Buffer_new(<<w, h>>, data)

SpecBuf == InitBuf /\ [][NextBuf]_vars

\* C5: every Buffer value satisfies data.len() == size.0 * size.1; Buffer::new
\* yields such a Buffer or fails with ShapeMismatch.
C5_BufferLengthMatchesSize ==
    Len(buf.data) = buf.size[1] * buf.size[2]

\* ==================================================== projection, geo-transform
\* the projection strings callers pass
Projections == {<<112>>, <<113>>, <<112, NUL, 113>>}

\* the GeoTransform values callers pass: [c_double; 6], the second with a
\* negative pixel_height and six different coefficients
GeoTransforms == {<<0, 1, 0, 0, 0, -1>>, <<10, 2, 3, 20, 5, -4>>}

\* CPLErr: what a native setter returns
CPLErrs == {"CE_None", "CE_Failure"}

GeoMsg == <<103>>

\* GDALGetProjectionRef: the stored projection as a C string
GDALGetProjectionRef == Append(proj, NUL)

\* DatasetExt::projection
projection == _string(GDALGetProjectionRef)

\* DatasetExt::set_projection after the native call: its return value is dropped
set_projection_result(rv, msg) == Ok(<<>>)

\* DatasetExt::set_projection(projection)
set_projection(projection_arg) ==
    LET c_projection == CString_new(projection_arg)
    IN  /\ IF ~c_projection.ok
           THEN /\ last' = [op |-> "set_projection", projection |-> projection_arg,
                            nativeCalled |-> FALSE, rv |-> "CE_None",
                            result |-> Err(c_projection.err)]
                /\ UNCHANGED <<proj, lastErrMsg>>
           ELSE \E rv \in CPLErrs :
                  /\ proj' = IF rv = "CE_None" THEN CStrBytes(c_projection.val) ELSE proj
                  /\ lastErrMsg' = IF rv = "CE_None" THEN lastErrMsg ELSE GeoMsg
                  /\ last' = [op |-> "set_projection", projection |-> projection_arg,
                              nativeCalled |-> TRUE, rv |-> rv,
                              result |-> set_projection_result(rv, lastErrMsg')]
        /\ prevGt' = gt
        /\ UNCHANGED <<gt, setGt, lifeVars, bandVars, bufVars, metaVars>>

\* a caller reads the projection
call_projection ==
    /\ last' = [op |-> "projection", result |-> projection]
    /\ prevGt' = gt
    /\ UNCHANGED <<proj, gt, setGt, lastErrMsg, lifeVars, bandVars, bufVars, metaVars>>

\* set_geo_transform with the native return value dropped
set_geo_transform_result_unchecked(rv, msg) == Ok(<<>>)

\* DatasetExt::set_geo_transform after the native call
set_geo_transform_result(rv, msg) ==
    IF rv # "CE_None" THEN Err(_last_cpl_err(rv, msg)) ELSE Ok(<<>>)

\* GDALSetGeoTransform reads six doubles through the pointer it is given
GDALSetGeoTransform_read(transformation) == [i \in 1..6 |-> transformation[i]]

\* DatasetExt::set_geo_transform(transformation)
set_geo_transform(transformation) ==
    /\ Len(transformation) = 6
    /\ \E rv \in CPLErrs :
          LET r == set_geo_transform_result(rv, IF rv = "CE_None" THEN lastErrMsg ELSE GeoMsg)
          IN  /\ gt' = IF rv = "CE_None" THEN GDALSetGeoTransform_read(transformation) ELSE gt
              /\ lastErrMsg' = IF rv = "CE_None" THEN lastErrMsg ELSE GeoMsg
              /\ setGt' = IF r.ok THEN transformation ELSE setGt
              /\ last' = [op |-> "set_geo_transform", transformation |-> transformation,
                          rv |-> rv, result |-> r]
    /\ prevGt' = gt
    /\ UNCHANGED <<proj, lifeVars, bandVars, bufVars, metaVars>>

\* the native dataset has no geo-transform
NoGeoTransform == <<>>

\* GeoTransform::default()
GeoTransform_default == [i \in 1..6 |-> 0]

\* GDALGetGeoTransform(c_dataset, out): the six doubles behind out are
\* overwritten with the stored coefficients, or with the identity transform,
\* and CE_Failure returned, when the dataset has none
GDALGetGeoTransform(g, out) ==
    IF g = NoGeoTransform
    THEN [rv |-> "CE_Failure", out |-> [i \in 1..Len(out) |-> <<0, 1, 0, 0, 0, 1>>[i]]]
    ELSE [rv |-> "CE_None", out |-> [i \in 1..Len(out) |-> g[i]]]

\* DatasetExt::geo_transform on a dataset whose native geo-transform is g
geo_transform(g, msg) ==
    LET native == GDALGetGeoTransform(g, GeoTransform_default)
        rv == native.rv
        transformation == native.out
    IN  IF rv # "CE_None"
        THEN Err(_last_cpl_err(rv, msg))
        ELSE Ok(transformation)

\* a caller reads the geo-transform
call_geo_transform ==
    /\ last' = [op |-> "geo_transform", result |-> geo_transform(gt, lastErrMsg)]
    /\ prevGt' = gt
    /\ UNCHANGED <<proj, gt, setGt, lastErrMsg, lifeVars, bandVars, bufVars, metaVars>>

InitGeo ==
    /\ proj = <<>>
    /\ gt \in {NoGeoTransform} \cup GeoTransforms
    /\ prevGt = gt
    /\ setGt = <<>>
    /\ last = [op |-> "none"]
    /\ lastErrMsg = <<>>
    /\ IdleLife /\ IdleBand /\ IdleBuf /\ IdleMeta

NextGeo ==
    \/ \E p \in Projections : set_projection(p)
    \/ call_projection
    \/ \E t \in GeoTransforms : set_geo_transform(t)
    \/ call_geo_transform

SpecGeo == InitGeo /\ [][NextGeo]_vars

\* C6: set_projection returns an error whenever the native set-projection call
\* reports failure, and Ok only when the native call reported success.
C6_SetProjectionReportsNativeFailure ==
    last.op = "set_projection" =>
        /\ (last.nativeCalled /\ last.rv # "CE_None") =>
              (~last.result.ok /\ last.result.err.kind = "CplError")
        /\ last.result.ok => (last.nativeCalled /\ last.rv = "CE_None")

\* C7: after a set_geo_transform(g) that returned Ok, a geo_transform() with no
\* set_geo_transform that returned Ok in between returns Ok with the six
\* coefficients of g in their order; a set_geo_transform that returned an error
\* leaves what geo_transform() returns as it was.
C7_GeoTransformRoundTrip ==
    /\ (last.op = "geo_transform" /\ setGt # <<>>) => last.result = Ok(setGt)
    /\ (last.op = "set_geo_transform" /\ last.result.ok) =>
          geo_transform(gt, lastErrMsg) = Ok(last.transformation)
    /\ (last.op = "set_geo_transform" /\ ~last.result.ok) =>
          geo_transform(gt, <<>>) = geo_transform(prevGt, <<>>)

\* C7 witness: geo_transform has returned the coefficients, the negative
\* pixel_height among them, of a set_geo_transform that replaced another
\* transform, after a later set_geo_transform failed.
C7_Witness ==
    /\ last.op = "geo_transform"
    /\ setGt = <<10, 2, 3, 20, 5, -4>>
    /\ last.result.ok
    /\ last.result.val[6] = -4
    /\ lastErrMsg = GeoMsg

\* ================================================================ metadata
\* the keys, domains and values callers pass
Keys == {<<107>>, <<108>>, <<107, NUL, 108>>}
Domains == {<<>>, <<100>>, <<NUL>>}
Values == {<<118>>, <<>>, <<118, NUL>>}

\* the (key, domain) pairs the native store can hold an item for
NativeItems == {<<107>>, <<108>>} \X {<<>>, <<100>>}

MetaMsg == <<109>>

\* Option<String>
Some(v) == [some |-> TRUE, val |-> v]
None == [some |-> FALSE]

\* a null *const c_char: a C string is never empty, it holds its terminator
NullStr == <<>>

\* the native store holds <<>> for an item that is not set, <<v>> for the value v
NoItem == <<>>

\* GDALGetMetadataItem(obj, c_key, c_domain): the item's value as a C string,
\* or null
GDALGetMetadataItem(store, c_key, c_domain) ==
    LET v == store[<<CStrBytes(c_key), CStrBytes(c_domain)>>]
    IN  IF v = NoItem THEN NullStr ELSE Append(v[1], NUL)

\* Metadata::metadata_item(key, domain) on an object whose items are store
metadata_item(store, key, domain) ==
    LET c_key == CString_new(key)
        c_domain == CString_new(domain)
    IN  IF c_key.ok /\ c_domain.ok
        THEN LET c_res == GDALGetMetadataItem(store, c_key.val, c_domain.val)
             IN  IF c_res # NullStr THEN Some(_string(c_res)) ELSE None
        ELSE None

\* a caller reads an item
call_metadata_item(key, domain) ==
    /\ last' = [op |-> "metadata_item", key |-> key, domain |-> domain,
                result |-> metadata_item(md, key, domain)]
    /\ prevMd' = md
    /\ UNCHANGED <<md, lastErrMsg, lifeVars, bandVars, bufVars, geoVars>>

\* set_metadata_item with the native return value dropped
set_metadata_item_result_unchecked(c_res, msg) == Ok(<<>>)

\* Metadata::set_metadata_item after the native call
set_metadata_item_result(c_res, msg) ==
    IF c_res # "CE_None" THEN Err(_last_cpl_err(c_res, msg)) ELSE Ok(<<>>)

\* GDALSetMetadataItem(obj, c_key, c_value, c_domain) when it succeeds
GDALSetMetadataItem(store, c_key, c_value, c_domain) ==
    [store EXCEPT ![<<CStrBytes(c_key), CStrBytes(c_domain)>>] = <<CStrBytes(c_value)>>]

\* Metadata::set_metadata_item(key, value, domain)
set_metadata_item(key, value, domain) ==
    LET c_key == CString_new(key)
        c_domain == CString_new(domain)
        c_value == CString_new(value)
        call == [op |-> "set_metadata_item", key |-> key, value |-> value,
                 domain |-> domain, result |-> Ok(<<>>)]
    IN  /\ prevMd' = md
        /\ UNCHANGED <<lifeVars, bandVars, bufVars, geoVars>>
        /\ IF ~c_key.ok \/ ~c_domain.ok \/ ~c_value.ok
           THEN /\ last' = [call EXCEPT !.result =
                              IF ~c_key.ok THEN Err(c_key.err)
                              ELSE IF ~c_domain.ok THEN Err(c_domain.err)
                              ELSE Err(c_value.err)]
                /\ UNCHANGED <<md, lastErrMsg>>
           ELSE \E c_res \in CPLErrs :
                  /\ md' = IF c_res = "CE_None"
                           THEN GDALSetMetadataItem(md, c_key.val, c_value.val, c_domain.val)
                           ELSE md
                  /\ lastErrMsg' = IF c_res = "CE_None" THEN lastErrMsg ELSE MetaMsg
                  /\ last' = [call EXCEPT !.result =
                                set_metadata_item_result(c_res, lastErrMsg')]

InitMeta ==
    /\ md = [item \in NativeItems |-> NoItem]
    /\ prevMd = md
    /\ last = [op |-> "none"]
    /\ lastErrMsg = <<>>
    /\ IdleLife /\ IdleBand /\ IdleBuf /\ IdleGeo

NextMeta ==
    \/ \E key \in Keys, domain \in Domains : call_metadata_item(key, domain)
    \/ \E key \in Keys, value \in Values, domain \in Domains :
          set_metadata_item(key, value, domain)

SpecMeta == InitMeta /\ [][NextMeta]_vars

\* C10: a set_metadata_item(key, value, domain) that returned an error leaves
\* metadata_item(k, d) as it was for every key k and domain d; one that returned
\* Ok makes metadata_item(key, domain) return Some(value) and leaves
\* metadata_item(k, d) as it was for every other (k, d).
C10_SetMetadataItemFrame ==
    last.op = "set_metadata_item" =>
        IF last.result.ok
        THEN /\ metadata_item(md, last.key, last.domain) = Some(last.value)
             /\ \A k \in Keys, d \in Domains :
                   <<k, d>> # <<last.key, last.domain>> =>
                       metadata_item(md, k, d) = metadata_item(prevMd, k, d)
        ELSE \A k \in Keys, d \in Domains :
                 metadata_item(md, k, d) = metadata_item(prevMd, k, d)

\* C10 witness: a set_metadata_item has failed natively on an object that
\* already holds an item under that key and another under another key.
C10_Witness ==
    /\ last.op = "set_metadata_item"
    /\ ~last.result.ok
    /\ last.result.err.kind = "CplError"
    /\ md[<<last.key, last.domain>>] \notin {NoItem, <<last.value>>}
    /\ \E item \in NativeItems : item[1] # last.key /\ md[item] # NoItem
====
